---- MODULE Spec2Model ----
(***************************************************************************)
(* gosolar: solar position and irradiance for a location and day of year.  *)
(*                                                                         *)
(* Every float64 of the program is a fixed-point integer here: the real    *)
(* number v is the integer v * Scale, rounded.  Angles are radians unless  *)
(* a name says degrees, times are minutes past midnight, as in the source. *)
(* A float64 that is not finite (NaN, Inf) is the record NaN or Inf; the   *)
(* functions of the source that can produce one return a record            *)
(* [cls, v], the others return the integer.                                *)
(***************************************************************************)
EXTENDS Integers, Sequences, FiniteSets, TLC

VARIABLES localTime, day, loc, fn, ret, nanInt, pc, sr, i, sum, samples

vars == <<localTime, day, loc, fn, ret, nanInt, pc, sr, i, sum, samples>>

(***************************************************************************)
(* Number system.                                                          *)
(***************************************************************************)
Scale == 10^4

Pi == 31416

HalfPi == Pi \div 2

TwoPi == 2 * Pi

Ln2 == 6931

Fin(v) == [cls |-> "fin", v |-> v]

NaN == [cls |-> "nan", v |-> 0]

Inf == [cls |-> "inf", v |-> 0]

Abs(x) == IF x < 0 THEN -x ELSE x

Sign(x) == IF x < 0 THEN -1 ELSE 1

\* a * b, rounded to the nearest unit; the product is split so that no
\* intermediate exceeds 32 bits.
Mul(a, b) ==
    (a \div Scale) * (b \div Scale) * Scale
        + (a \div Scale) * (b % Scale)
        + (a % Scale) * (b \div Scale)
        + ((a % Scale) * (b % Scale) + Scale \div 2) \div Scale

\* a / b for b # 0, rounded to the nearest unit.
Div(a, b) ==
    IF b > 0 THEN (2 * a * Scale + b) \div (2 * b)
             ELSE (2 * (-a) * Scale + (-b)) \div (2 * (-b))

\* Go's int(x) for a finite float64 x: truncation toward zero.
Trunc(x) == IF x >= 0 THEN x \div Scale ELSE -((-x) \div Scale)

Clamp(v) == IF v > Scale THEN Scale ELSE IF v < -Scale THEN -Scale ELSE v

\* r (1 - q/6 (1 - q/20 (1 - q/42 (1 - q/72 (1 - q/110))))) for q = r^2.
SinHorner(r, q) ==
    Mul(r, Scale - Mul(q, Scale - Mul(q, Scale - Mul(q, Scale
        - Mul(q, Scale - q \div 110) \div 72) \div 42) \div 20) \div 6)

\* sin r for r in [-pi/2, pi/2]: the Taylor polynomial up to r^11.
SinSeries(r) == SinHorner(r, Mul(r, r))

\* SinSeries over the quarter circle, tabulated once.
SinQuarter == [r \in 0..HalfPi |-> Clamp(SinSeries(r))]

\* An angle of [0, 2 pi) brought into (-pi, pi].
SinWrap(m) == IF m > Pi THEN m - TwoPi ELSE m

\* An angle of (-pi, pi] reflected into [-pi/2, pi/2].
SinFold(w) ==
    IF w > HalfPi THEN Pi - w ELSE IF w < -HalfPi THEN -Pi - w ELSE w

\* sin is odd.
SinOdd(r) == Sign(r) * SinQuarter[Abs(r)]

\* math.Sin: reduce the angle to [-pi/2, pi/2].
Sin(x) == SinOdd(SinFold(SinWrap(x % TwoPi)))

\* math.Cos
Cos(x) == Sin(x + HalfPi)

\* The least a in (lo, hi] with Sin(a) >= v, by bisection.
RECURSIVE AsinSearch(_, _, _)
AsinSearch(v, lo, hi) ==
    IF hi - lo <= 1 THEN hi
    ELSE IF SinQuarter[(lo + hi) \div 2] >= v
         THEN AsinSearch(v, lo, (lo + hi) \div 2)
         ELSE AsinSearch(v, (lo + hi) \div 2, hi)

\* asin over [0, 1], tabulated once (asin(1) = pi/2).
AsinUnit ==
    [v \in 0..Scale |-> IF v = Scale THEN HalfPi ELSE AsinSearch(v, -1, HalfPi)]

\* math.Asin for an argument in [-1, 1]; asin is odd.
AsinFin(v) ==
    IF v >= Scale THEN HalfPi
    ELSE IF v <= -Scale THEN -HalfPi
    ELSE Sign(v) * AsinUnit[Abs(v)]

\* math.Acos: NaN outside [-1, 1], else pi/2 - asin.
Acos(v) ==
    IF v > Scale \/ v < -Scale THEN NaN ELSE Fin(HalfPi - AsinFin(v))

\* x > 0 as m * 2^j with m in [1, 2): the pair <<m, j>>.
RECURSIVE LnNorm(_, _)
LnNorm(x, j) ==
    IF x >= 2 * Scale THEN LnNorm(x \div 2, j + 1)
    ELSE IF x < Scale THEN LnNorm(x * 2, j - 1)
    ELSE <<x, j>>

\* 1 + q/3 + q^2/5 + q^3/7 + q^4/9
LnHorner(q) ==
    Scale + Mul(q, Scale \div 3 + Mul(q, Scale \div 5
        + Mul(q, Scale \div 7 + Mul(q, Scale \div 9))))

\* 2 atanh z
LnSeries(z) == 2 * Mul(z, LnHorner(Mul(z, z)))

\* ln(m 2^j) for n = <<m, j>>: ln m = 2 atanh((m-1)/(m+1)), plus j ln 2.
LnOfNorm(n) == LnSeries(Div(n[1] - Scale, n[1] + Scale)) + n[2] * Ln2

\* math.Log for x > 0.
Ln(x) == LnOfNorm(LnNorm(x, 0))

\* e^r for r in [0, ln 2): the Taylor polynomial up to r^6.
ExpSeries(r) ==
    Scale + Mul(r, Scale + Mul(r, Scale + Mul(r, Scale + Mul(r, Scale
        + Mul(r, Scale + r \div 6) \div 5) \div 4) \div 3) \div 2)

\* 2^k e for e in [1, 2); below 2^-14 the result is 0.
ExpScaled(k, e) ==
    IF k < -14 THEN 0 ELSE IF k >= 0 THEN e * 2^k ELSE e \div 2^(-k)

\* math.Exp: z = k ln 2 + r, e^z = 2^k e^r.
Exp(z) == ExpScaled(z \div Ln2, ExpSeries(z - (z \div Ln2) * Ln2))

\* math.Pow(x, y) for x > 0.
Pow(x, y) == Exp(Mul(y, Ln(x)))

(***************************************************************************)
(* Constants and the time correction (gosolar.go 10-77).                   *)
(***************************************************************************)
\* DegToRad * x
DegToRad(x) == Mul(x, Pi) \div 180

\* RadToDeg * x
RadToDeg(x) == Mul(x, 572958)

\* Circle / DaysPerYear * n, for an integer n
CirclePerDay(n) == (TwoPi * n) \div 365

\* A meridian of 14 degrees per hour of offset (14 for 15).
LSTMNarrow(timezone) == DegToRad(14 * timezone)

LSTM(timezone) == DegToRad(15 * timezone)

\* 9.87 sin(2b) - 7.53 cos(b) - 1.5 sin(b)
EoTOfB(b) == Mul(98700, Sin(2 * b)) - Mul(75300, Cos(b)) - Mul(15000, Sin(b))

EoT(d) == EoTOfB(CirclePerDay(d - 81))

\* An offset in whole hours, as civil time zones have.
TimezoneForWholeHours(l) == (l.Lon \div (15 * Scale)) * Scale

TimezoneFor(l) ==
    (IF l.Lon > 180 * Scale THEN -(l.Lon - 180 * Scale) ELSE l.Lon) \div 15

TCF(d, l) == 4 * (DegToRad(l.Lon) - LSTM(TimezoneFor(l))) + EoT(d)

LST(t, d, l) == t * Scale + TCF(d, l) \div 60

HRA(t, d, l) == Mul(LST(t, d, l) - 720 * Scale, Pi) \div 720

(***************************************************************************)
(* Solar geometry (gosolar.go 82-127).                                     *)
(***************************************************************************)
Declination(d) == DegToRad(Mul(234500, Sin(CirclePerDay(d - 81))))

\* The argument of math.Asin in Elevation: the sine of the elevation, a
\* real number in [-1, 1].
SinElevation(t, d, l) ==
    Clamp(Mul(Sin(Declination(d)), Sin(DegToRad(l.Lat)))
          + Mul(Mul(Cos(Declination(d)), Cos(DegToRad(l.Lat))),
                Cos(HRA(t, d, l))))

Elevation(t, d, l) == AsinFin(SinElevation(t, d, l))

Zenith(t, d, l) == DegToRad(90 * Scale) - Elevation(t, d, l)

\* cosTheta before the division by math.Sin(zenith).
AzimuthCos(dec, lat, hourAngle) ==
    Mul(Sin(dec), Cos(lat)) - Mul(Mul(Cos(hourAngle), Cos(dec)), Sin(lat))

\* cosTheta /= math.Sin(zenith) divides by zero when the sun is at the
\* zenith or the nadir: math.Acos of the quotient is then NaN.
AzimuthTheta(cosTheta, sinZenith) ==
    IF sinZenith = 0 THEN NaN ELSE Acos(Clamp(Div(cosTheta, sinZenith)))

\* theta before solar noon, 360 degrees - theta after it.
AzimuthSide(theta, lst) ==
    IF theta.cls = "nan" THEN NaN
    ELSE IF lst < 720 * Scale THEN theta
    ELSE Fin(DegToRad(360 * Scale) - theta.v)

Azimuth(t, d, l) ==
    AzimuthSide(AzimuthTheta(AzimuthCos(Declination(d), DegToRad(l.Lat),
                                        HRA(t, d, l)),
                             Sin(Zenith(t, d, l))),
                LST(t, d, l))

(***************************************************************************)
(* Irradiance (gosolar.go 133-178).                                        *)
(***************************************************************************)
\* A guard threshold ten degrees too wide (106.07995 for 96.07995).
AMThresholdWide == DegToRad(1060800)

\* The guard threshold DegToRad * 96.07995.
AMThreshold == DegToRad(960800)

\* d := math.Cos(theta) + DegToRad * 0.50572 * math.Pow(x, DegToRad * -1.6364)
AMDenominator(theta, x) ==
    Cos(theta) + DegToRad(Mul(5057, Pow(x, DegToRad(-16364))))

\* 1 / d: +Inf at d = 0.
AMInverse(dd) == IF dd = 0 THEN Inf ELSE Fin(Div(Scale, dd))

\* math.Pow(0, y) is +Inf for y < 0, so d is +Inf and 1/d is 0 at x = 0.
AMGuarded(theta, x) ==
    IF x < 0 THEN Fin(0)
    ELSE IF x = 0 THEN Fin(0)
    ELSE AMInverse(AMDenominator(theta, x))

AMOfZenith(theta) == AMGuarded(theta, AMThreshold - theta)

AM(t, d, l) == AMOfZenith(Zenith(t, d, l))

\* math.Pow(0.7, math.Pow(am, 0.678)); math.Pow(+Inf, 0.678) is +Inf and
\* math.Pow(0.7, +Inf) is 0.
IDTransmission(am) ==
    IF am.cls = "inf" THEN 0 ELSE Pow(7000, Pow(am.v, 6780))

\* 1.353 * ((1 - ah) * p + ah), or 0 when am <= 0.
IDOfAM(am, ah) ==
    IF am.cls = "fin" /\ am.v <= 0 THEN 0
    ELSE Mul(13530, Mul(Scale - ah, IDTransmission(am)) + ah)

ID(t, d, l) == IDOfAM(AM(t, d, l), Mul(1400, l.Alt))

IG(t, d, l) == Mul(11000, ID(t, d, l))

\* sHoriz / math.Sin(e): at e = 0 the quotient is NaN (0/0) or an infinity.
ModulePowerQuotient(sHoriz, sinE) ==
    IF sinE = 0 THEN (IF sHoriz = 0 THEN NaN ELSE Inf)
    ELSE Fin(Div(sHoriz, sinE))

\* sHoriz := id * math.Sin(e + DegToRad * loc.Lat)
ModulePowerOfIG(id, e, lat) ==
    ModulePowerQuotient(Mul(id, Sin(e + lat)), Sin(e))

ModulePower(t, d, l) ==
    ModulePowerOfIG(IG(t, d, l), Elevation(t, d, l), DegToRad(l.Lat))

(***************************************************************************)
(* Daily aggregates (gosolar.go 182-218).                                  *)
(***************************************************************************)
\* num / den, NaN or an infinity when the divisor is zero.
HorizonQuotient(num, den) ==
    IF den = 0 THEN (IF num = 0 THEN NaN ELSE Inf) ELSE Fin(Div(num, den))

\* b of Sunrise and Sunset: -sin(lat) sin(dec) / (cos(lat) cos(dec)).
HorizonArg(d, l) ==
    HorizonQuotient(Mul(-Sin(DegToRad(l.Lat)), Sin(Declination(d))),
                    Mul(Cos(DegToRad(l.Lat)), Cos(Declination(d))))

\* math.Acos(b): NaN for a NaN or infinite b and outside [-1, 1].
AcosOfFloat(b) == IF b.cls = "fin" THEN Acos(b.v) ELSE NaN

HorizonAcos(d, l) == AcosOfFloat(HorizonArg(d, l))

\* The hour angle in hours at 15 degrees per hour: RadToDeg * h / 15.
HorizonTermPerDegree(h) == RadToDeg(h) \div 15

\* a * math.Acos(b) * RadToDeg with a := 1.0 / 0.25 * DegToRad.  The
\* product a * acos(b) is small, so it is carried with two more decimal
\* digits than Scale gives.
HorizonTerm(h) == RadToDeg(DegToRad(4 * 100 * h)) \div 100

\* (12 - a * math.Acos(b) * RadToDeg) * 60
SunriseOfAcos(h) ==
    IF h.cls = "nan" THEN NaN ELSE Fin((12 * Scale - HorizonTerm(h.v)) * 60)

Sunrise(d, l) == SunriseOfAcos(HorizonAcos(d, l))

\* A sunset twelve hours late: (24 + ...) * 60.
SunsetOfAcosLate(h) ==
    IF h.cls = "nan" THEN NaN ELSE Fin((24 * Scale + HorizonTerm(h.v)) * 60)

\* (12 + a * math.Acos(b) * RadToDeg) * 60
SunsetOfAcos(h) ==
    IF h.cls = "nan" THEN NaN ELSE Fin((12 * Scale + HorizonTerm(h.v)) * 60)

Sunset(d, l) == SunsetOfAcos(HorizonAcos(d, l))

\* Sunset - Sunrise: NaN when either is.
SunTimeOf(a, b) ==
    IF a.cls = "nan" \/ b.cls = "nan" THEN NaN ELSE Fin(a.v - b.v)

SunTime(d, l) == SunTimeOf(Sunset(d, l), Sunrise(d, l))

\* int(x) of a float64: truncation; for NaN the result depends on the
\* build (nanInt).
ToInt(x) == IF x.cls = "fin" THEN Trunc(x.v) ELSE nanInt

(***************************************************************************)
(* Inputs.  A Location is [Lat, Lon, Alt] in degrees, degrees and          *)
(* kilometres (City and State take no part in any computation).            *)
(***************************************************************************)
MaxTimeIdx == 23

MaxDayIdx == 6

MaxLonIdx == 3

\* gosolar_test.go: the test location, Lakewood WA.
Lakewood == [Lat |-> 471718, Lon |-> -1225185, Alt |-> 790]

\* The same place with its longitude counted eastward from Greenwich.
LakewoodEast == [Lat |-> 471718, Lon |-> 2374815, Alt |-> 790]

Sydney == [Lat |-> -338688, Lon |-> 1512093, Alt |-> 580]

\* Dome Argus on the Antarctic plateau, 4093 m.
DomeA == [Lat |-> -803670, Lon |-> 773500, Alt |-> 40930]

Quito == [Lat |-> 0, Lon |-> -785000, Alt |-> 28500]

NorthPole == [Lat |-> 900000, Lon |-> 0, Alt |-> 0]

\* A point on the Tropic of Cancer, where the sun is overhead at the June
\* solstice (day 171).
TropicOfCancer == [Lat |-> 234400, Lon |-> 0, Alt |-> 0]

Sites ==
    {Lakewood, LakewoodEast, Sydney, DomeA, Quito, NorthPole, TropicOfCancer}

\* Points on the equator every 75 degrees of longitude, past +-180.
Meridians ==
    {[Lat |-> 0, Lon |-> 75 * Scale * k, Alt |-> 0] : k \in -MaxLonIdx..MaxLonIdx}

Locs == Sites \cup Meridians

Days == {(48 * k) % 365 : k \in 0..MaxDayIdx} \cup {171}

\* One minute of every hour of the day, and noon.
Times == {t \in {60 * k + 41 : k \in 0..MaxTimeIdx} : t < 1440} \cup {720}

\* What int(NaN) yields: the most negative integer on amd64, 0 on arm64.
NaNToInt == {-(2^30), 0}

(***************************************************************************)
(* The library is stateless: a state is the arguments of a call, the       *)
(* function called last and what it returned.                              *)
(***************************************************************************)
Init ==
    /\ localTime \in Times
    /\ day \in Days
    /\ loc \in Locs
    /\ nanInt = 0
    /\ fn = "none"
    /\ ret = Fin(0)
    /\ pc = "idle"
    /\ sr = 0
    /\ i = 0
    /\ sum = 0
    /\ samples = {}

Returns(f, r) ==
    /\ fn' = f
    /\ ret' = r
    /\ UNCHANGED <<localTime, day, loc, nanInt, pc, sr, i, sum, samples>>

CallLSTM == Returns("LSTM", Fin(LSTM(TimezoneFor(loc))))

\* An EoT that adds to what the previous call left behind.
CallEoTCarrying == Returns("EoT", Fin(EoT(day) + ret.v))

CallEoT == Returns("EoT", Fin(EoT(day)))

CallTimezoneFor == Returns("TimezoneFor", Fin(TimezoneFor(loc)))

CallTCF == Returns("TCF", Fin(TCF(day, loc)))

CallLST == Returns("LST", Fin(LST(localTime, day, loc)))

CallHRA == Returns("HRA", Fin(HRA(localTime, day, loc)))

CallDeclination == Returns("Declination", Fin(Declination(day)))

CallElevation == Returns("Elevation", Fin(Elevation(localTime, day, loc)))

CallZenith == Returns("Zenith", Fin(Zenith(localTime, day, loc)))

CallAzimuth == Returns("Azimuth", Azimuth(localTime, day, loc))

CallAM == Returns("AM", AM(localTime, day, loc))

CallID == Returns("ID", Fin(ID(localTime, day, loc)))

CallIG == Returns("IG", Fin(IG(localTime, day, loc)))

CallModulePower == Returns("ModulePower", ModulePower(localTime, day, loc))

CallSunTime == Returns("SunTime", SunTime(day, loc))

CallSunrise == Returns("Sunrise", Sunrise(day, loc))

CallSunset == Returns("Sunset", Sunset(day, loc))

Next ==
    \/ CallLSTM
    \/ CallEoT
    \/ CallTimezoneFor
    \/ CallTCF
    \/ CallLST
    \/ CallHRA
    \/ CallDeclination
    \/ CallElevation
    \/ CallZenith
    \/ CallAzimuth
    \/ CallAM
    \/ CallID
    \/ CallIG
    \/ CallModulePower
    \/ CallSunTime
    \/ CallSunrise
    \/ CallSunset

Spec == Init /\ [][Next]_vars

(***************************************************************************)
(* The same calls with arguments outside a day or a year: localTime and    *)
(* day are plain ints, and no function tests their range.                  *)
(***************************************************************************)
\* Times of day, and the same a day later and a day earlier.
TimesAnyDay == {t + 1440 * k : t \in {41, 281, 560, 1001}, k \in {-1, 0, 1}}

\* Days of the year, and the same a year later and a year earlier.
DaysAnyYear == {d + 365 * k : d \in {48, 171}, k \in {-1, 0, 1}}

InitOutOfRange ==
    /\ localTime \in TimesAnyDay
    /\ day \in DaysAnyYear
    /\ ~(localTime \in 0..1439 /\ day \in 0..364)
    /\ loc \in {Lakewood, Sydney}
    /\ nanInt = 0
    /\ fn = "none"
    /\ ret = Fin(0)
    /\ pc = "idle"
    /\ sr = 0
    /\ i = 0
    /\ sum = 0
    /\ samples = {}

SpecOutOfRange == InitOutOfRange /\ [][Next]_vars

(***************************************************************************)
(* PeakSolarHours (gosolar.go 210-218), one action per step of its loop.   *)
(* samples is the set of local times passed to IG so far.                  *)
(***************************************************************************)
InitPSH ==
    /\ localTime = 0
    /\ day \in Days
    /\ loc \in Sites
    /\ nanInt \in NaNToInt
    /\ fn = "PeakSolarHours"
    /\ ret = Fin(0)
    /\ pc = "enter"
    /\ sr = 0
    /\ i = 0
    /\ sum = 0
    /\ samples = {}

\* sr := int(Sunrise(day, loc)); i := sr
PSHEnter ==
    /\ pc = "enter"
    /\ sr' = ToInt(Sunrise(day, loc))
    /\ i' = sr'
    /\ pc' = "loop"
    /\ UNCHANGED <<localTime, day, loc, fn, ret, nanInt, sum, samples>>

\* i < int(Sunset(day, loc)): sum += IG(sr+i, day, loc); i++
PSHIter ==
    /\ pc = "loop"
    /\ i < ToInt(Sunset(day, loc))
    /\ sum' = sum + IG(sr + i, day, loc)
    /\ samples' = samples \cup {sr + i}
    /\ i' = i + 1
    /\ UNCHANGED <<localTime, day, loc, fn, ret, nanInt, pc, sr>>

\* return sum / 60
PSHReturn ==
    /\ pc = "loop"
    /\ ~(i < ToInt(Sunset(day, loc)))
    /\ ret' = Fin(sum \div 60)
    /\ pc' = "done"
    /\ UNCHANGED <<localTime, day, loc, fn, nanInt, sr, i, sum, samples>>

NextPSH ==
    \/ PSHEnter
    \/ PSHIter
    \/ PSHReturn

SpecPSH == InitPSH /\ [][NextPSH]_vars

(***************************************************************************)
(* Claims.                                                                 *)
(***************************************************************************)
\* Sunrise and Sunset are defined: the arccosine argument is in [-1, 1].
Polar(d, l) ==
    LET b == HorizonArg(d, l)
    IN  b.cls # "fin" \/ b.v > Scale \/ b.v < -Scale

\* C1: when sunrise and sunset are defined, the local times PeakSolarHours
\* passes to IG are exactly int(Sunrise), ..., int(Sunset) - 1.
C1_SamplesAreSunlitMinutes ==
    (pc = "done" /\ ~Polar(day, loc)) =>
        samples = ToInt(Sunrise(day, loc)) .. (ToInt(Sunset(day, loc)) - 1)

\* C2: PeakSolarHours returns a value r with 0 <= r <= 24.
C2_PSHWithinDay ==
    pc = "done" => (ret.cls = "fin" /\ ret.v >= 0 /\ ret.v <= 24 * Scale)

\* C3: in polar day or polar night Sunrise, Sunset and SunTime return an
\* error outcome and not a float64.
C3_PolarSignalled ==
    (fn \in {"Sunrise", "Sunset", "SunTime"} /\ Polar(day, loc)) =>
        ret.cls = "error"

\* C4: when the zenith angle exceeds 96.07995 degrees, AM, ID, IG and
\* ModulePower return exactly 0.
C4_ZeroBeyondThreshold ==
    (/\ fn \in {"AM", "ID", "IG", "ModulePower"}
     /\ Zenith(localTime, day, loc) > DegToRad(960800)) =>
        ret = Fin(0)

\* C4 witness: ModulePower was called with the sun more than 96.07995
\* degrees from the zenith.
C4_NightModulePower ==
    /\ fn = "ModulePower"
    /\ Zenith(localTime, day, loc) > DegToRad(960800)

\* C5: AM never returns a negative value.
C5_AirMassNonNegative ==
    fn = "AM" => (ret.cls = "inf" \/ (ret.cls = "fin" /\ ret.v >= 0))

\* C6: when Elevation is exactly 0, ModulePower returns 0.
C6_ModulePowerZeroAtHorizon ==
    (fn = "ModulePower" /\ Elevation(localTime, day, loc) = 0) =>
        ret = Fin(0)

\* C7: for a time of day, a day of the year, a latitude in [-90, 90] and an
\* altitude >= 0, a finite result of ID, IG or ModulePower is >= 0.
C7_IntensityNonNegative ==
    (/\ fn \in {"ID", "IG", "ModulePower"}
     /\ localTime \in 0..1439
     /\ day \in 0..364
     /\ loc.Lat >= -90 * Scale
     /\ loc.Lat <= 90 * Scale
     /\ loc.Alt >= 0
     /\ ret.cls = "fin") =>
        ret.v >= 0

\* C8: LST returns localTime + TCF(day, loc), the correction not rescaled.
C8_LSTAddsRawTCF ==
    fn = "LST" => ret.v = localTime * Scale + TCF(day, loc)

\* The longitude x brought into (-180, 180] by whole turns.
NormalizedLon(x) == x - 360 * Scale * ((x + 180 * Scale - 1) \div (360 * Scale))

\* C9: TimezoneFor returns L / 15 for L the longitude normalized into
\* (-180, 180].
C9_TimezoneOfNormalizedLon ==
    fn = "TimezoneFor" => ret.v = NormalizedLon(loc.Lon) \div 15

\* C10, as stated: Sunrise is 720 - 4 degrees(H) and Sunset 720 + 4 degrees(H)
\* minutes, H the horizon hour angle (to a tenth of a minute).
C10_FourMinutesPerDegree ==
    LET h == HorizonAcos(day, loc)
    IN  /\ (fn = "Sunrise" /\ h.cls = "fin") =>
               (/\ ret.cls = "fin"
                /\ Abs(ret.v - (720 * Scale - 4 * RadToDeg(h.v))) <= Scale \div 10)
        /\ (fn = "Sunset" /\ h.cls = "fin") =>
               (/\ ret.cls = "fin"
                /\ Abs(ret.v - (720 * Scale + 4 * RadToDeg(h.v))) <= Scale \div 10)

\* C10, amended: Sunrise is 720 - 240 H and Sunset 720 + 240 H minutes, H the
\* horizon hour angle in radians (to a tenth of a minute).
C10_240MinutesPerRadian ==
    LET h == HorizonAcos(day, loc)
    IN  /\ (fn = "Sunrise" /\ h.cls = "fin") =>
               (/\ ret.cls = "fin"
                /\ Abs(ret.v - (720 * Scale - 240 * h.v)) <= Scale \div 10)
        /\ (fn = "Sunset" /\ h.cls = "fin") =>
               (/\ ret.cls = "fin"
                /\ Abs(ret.v - (720 * Scale + 240 * h.v)) <= Scale \div 10)

\* C10 witness: Sunrise returned for a horizon hour angle above one radian,
\* where the two readings lie more than ten minutes apart.
C10_SunriseOfLongDay ==
    /\ fn = "Sunrise"
    /\ HorizonAcos(day, loc).cls = "fin"
    /\ HorizonAcos(day, loc).v > Scale
    /\ ret.cls = "fin"

\* C11: when the sine of the zenith angle is 0 (sun at the zenith or the
\* nadir), Azimuth returns 0.
C11_AzimuthZeroAtZenith ==
    (fn = "Azimuth" /\ Sin(Zenith(localTime, day, loc)) = 0) => ret = Fin(0)

\* The longitude lies in (-180, 180].
InRangeLon(l) == l.Lon > -180 * Scale /\ l.Lon <= 180 * Scale

Result(f, t, d, l) ==
    CASE f = "LSTM"        -> Fin(LSTM(TimezoneFor(l)))
      [] f = "EoT"         -> Fin(EoT(d))
      [] f = "TimezoneFor" -> Fin(TimezoneFor(l))
      [] f = "TCF"         -> Fin(TCF(d, l))
      [] f = "LST"         -> Fin(LST(t, d, l))
      [] f = "HRA"         -> Fin(HRA(t, d, l))
      [] f = "Declination" -> Fin(Declination(d))
      [] f = "Elevation"   -> Fin(Elevation(t, d, l))
      [] f = "Zenith"      -> Fin(Zenith(t, d, l))
      [] f = "Azimuth"     -> Azimuth(t, d, l)
      [] f = "AM"          -> AM(t, d, l)
      [] f = "ID"          -> Fin(ID(t, d, l))
      [] f = "IG"          -> Fin(IG(t, d, l))
      [] f = "ModulePower" -> ModulePower(t, d, l)
      [] f = "SunTime"     -> SunTime(d, l)
      [] f = "Sunrise"     -> Sunrise(d, l)
      [] f = "Sunset"      -> Sunset(d, l)

C14_SameAsNormalizedInput ==
    fn # "none" => ret = Result(fn, localTime % 1440, day % 365, loc)

\* C15, as stated: the loop of PeakSolarHours performs at most 900
\* iterations, and the function returns once i has reached int(Sunset).
C15_ReturnsWithin900 ==
    /\ pc # "enter" => i - sr <= 900
    /\ pc = "done" => i >= ToInt(Sunset(day, loc))

\* C15, amended: the loop of PeakSolarHours performs at most 1509
\* iterations (2 * 240 * pi minutes, and one for the truncations), and the
\* function returns once i has reached int(Sunset).
C15_ReturnsWithin1509 ==
    /\ pc # "enter" => i - sr <= 1509
    /\ pc = "done" => i >= ToInt(Sunset(day, loc))

\* C15 witness: PeakSolarHours has returned after more than 900 iterations.
C15_ReturnedAfterLongDay ==
    pc = "done" /\ i - sr > 900

\* C16: when sunrise and sunset are defined, every local time PeakSolarHours
\* passes to IG is a time of day, 0 <= t < 1440.
C16_SamplesAreTimesOfDay ==
    ~Polar(day, loc) => samples \subseteq 0..1439

====
